---------------------------- MODULE Spec2Model ----------------------------
(***************************************************************************)
(* empfindung: the colour-difference library (CIE76, CIE94, CIEDE2000,     *)
(* CMC l:c), its input validation and its L*a*b* -> L*C*H* conversion.     *)
(*                                                                         *)
(* The library computes on JavaScript numbers, i.e. binary floating point  *)
(* with round-to-nearest.  The model keeps that arithmetic and scales its  *)
(* width down: a number is m * 2^e with a significand of Prec bits instead *)
(* of 53, gradual underflow at exponent -MinExp, and the special values    *)
(* NaN and +-Infinity.  Every arithmetic operator of the source is one     *)
(* correctly rounded operation of the model, so cancellation, absorption   *)
(* and negative radicands show up in the model as they do in the code.     *)
(* The sign of zero is not modelled.                                       *)
(*                                                                         *)
(* A constant of the source that is used more than once is a parameter of  *)
(* an operator here, so that its value is computed once, as in the code.   *)
(***************************************************************************)
EXTENDS Integers, Sequences, FiniteSets

\* Width of the significand in bits (53 in the source's numbers).
Prec == 12
\* The smallest exponent is -MinExp, the largest value is below 2^(MaxExp+1).
MinExp == 40
MaxExp == 60
\* Raw colour inputs have 0..MaxChannels elements.
MaxChannels == 4

(***************************************************************************)
(* Numbers                                                                 *)
(***************************************************************************)
NaN == [k |-> "nan", m |-> 0, e |-> 0]
Infinity(s) == [k |-> "inf", m |-> s, e |-> 0]
Zero == [k |-> "fin", m |-> 0, e |-> 0 - MinExp]

Sign(n) == IF n > 0 THEN 1 ELSE IF n < 0 THEN 0 - 1 ELSE 0
Abs(n) == IF n < 0 THEN 0 - n ELSE n

\* The number of bits of n, 0 <= n < 2^31: the number of powers of two up
\* to n.
BitLen(n) == Cardinality({k \in 0..30 : 2^k <= n})

\* A value that the source computes before the statements that use it:
\* v is evaluated first, then rest.
Const(v, rest) == IF v = v THEN rest ELSE v

\* Integer square root (floor) of n < 4^(Prec + 1) by Newton's iteration
\* from r >= sqrt(n): the iterates decrease down to the root.
RECURSIVE ISqrtFrom(_, _)
ISqrtFrom(n, r) ==
  IF (r + n \div r) \div 2 >= r THEN r
  ELSE ISqrtFrom(n, (r + n \div r) \div 2)

\* Twice the quotient n / d, the low bit set when the division is inexact.
Sticky(n, d) == 2 * (n \div d) + (IF n % d = 0 THEN 0 ELSE 1)

\* The finite number sgn * q * 2^e for 0 <= q < 2^Prec, or its overflow.
Pack(sgn, q, e) ==
  IF q = 0 THEN Zero
  ELSE IF e + Prec - 1 > MaxExp THEN Infinity(sgn)
  ELSE [k |-> "fin", m |-> sgn * q, e |-> e]

\* a / 2^s rounded to the nearest integer, ties to even (s >= 1).
Nearest(a, s) ==
  IF \/ a % 2^s > 2^(s - 1)
     \/ (a % 2^s = 2^(s - 1) /\ (a \div 2^s) % 2 = 1)
  THEN a \div 2^s + 1
  ELSE a \div 2^s

\* sgn * q * 2^e where q <= 2^Prec comes out of Nearest: a carry into bit
\* Prec moves the exponent up by one.
Carry(sgn, q, e) ==
  IF q = 2^Prec THEN Pack(sgn, q \div 2, e + 1) ELSE Pack(sgn, q, e)

\* m * 2^e, where m has L bits, with s bits to drop (s <= 0: none, and the
\* significand is moved up to Prec bits as far as the grid allows).
RoundBits(m, e, L, s) ==
  IF s <= 0
  THEN (IF Prec - L <= e + MinExp
        THEN Pack(Sign(m), Abs(m) * 2^(Prec - L), e - (Prec - L))
        ELSE Pack(Sign(m), Abs(m) * 2^(e + MinExp), 0 - MinExp))
  ELSE IF s > L THEN Zero
  ELSE Carry(Sign(m), Nearest(Abs(m), s), e + s)

\* The number nearest to m * 2^e: round to nearest, ties to even, to Prec
\* significant bits or to the grid 2^-MinExp, whichever is coarser.  An odd
\* m that carries at least two bits more than Prec acts as a sticky bit.
RoundLen(m, e, L) ==
  Const(L, RoundBits(m, e, L, IF L - Prec >= (0 - MinExp) - e THEN L - Prec
                            ELSE (0 - MinExp) - e))
Round(m, e) == IF m = 0 THEN Zero ELSE RoundLen(m, e, BitLen(Abs(m)))

\* The significand of a non-zero finite number stretched to exactly Prec bits.
FullM(x) == x.m * 2^(Prec - BitLen(Abs(x.m)))
FullE(x) == x.e - (Prec - BitLen(Abs(x.m)))

IsNaN(x) == x.k = "nan"
IsFinite(x) == x.k = "fin"

\* A numeric literal n/d of the source (d > 0), correctly rounded.
LitScaled(n, d, k) == Round(Sign(n) * Sticky(Abs(n) * 2^k, d), 0 - k - 1)
Lit(n, d) ==
  IF n = 0 THEN Zero
  ELSE IF Prec + 2 + BitLen(d) <= BitLen(Abs(n)) THEN LitScaled(n, d, 0)
  ELSE LitScaled(n, d, Prec + 2 + BitLen(d) - BitLen(Abs(n)))
Num(n) == Lit(n, 1)

Neg(x) == [x EXCEPT !.m = 0 - x.m]

\* hi + lo for finite non-zero numbers with hi.e >= lo.e
AddAligned(hi, lo) ==
  IF hi.e - lo.e > Prec + 2 THEN hi
  ELSE Round(hi.m * 2^(hi.e - lo.e) + lo.m, lo.e)

\* x + y when x or y is NaN or an infinity
AddSpecial(x, y) ==
  IF IsNaN(x) \/ IsNaN(y) THEN NaN
  ELSE IF x.k = "inf" THEN (IF y.k = "inf" /\ y.m # x.m THEN NaN ELSE x)
  ELSE y

\* x + y
Add(x, y) ==
  IF x.k # "fin" THEN AddSpecial(x, y)
  ELSE IF y.k # "fin" THEN AddSpecial(x, y)
  ELSE IF x.m = 0 THEN y
  ELSE IF y.m = 0 THEN x
  ELSE AddAligned(IF x.e >= y.e THEN x ELSE y, IF x.e >= y.e THEN y ELSE x)

\* x - y = x + (-y)
Sub(x, y) ==
  IF x.k # "fin" THEN AddSpecial(x, Neg(y))
  ELSE IF y.k # "fin" THEN AddSpecial(x, Neg(y))
  ELSE IF x.m = 0 THEN Neg(y)
  ELSE IF y.m = 0 THEN x
  ELSE AddAligned(IF x.e >= y.e THEN x ELSE Neg(y),
                  IF x.e >= y.e THEN Neg(y) ELSE x)

\* x * y when x or y is NaN or an infinity
MulSpecial(x, y) ==
  IF IsNaN(x) \/ IsNaN(y) THEN NaN
  ELSE IF x.m = 0 \/ y.m = 0 THEN NaN
  ELSE Infinity(Sign(x.m) * Sign(y.m))

\* x * y
Mul(x, y) ==
  IF x.k # "fin" THEN MulSpecial(x, y)
  ELSE IF y.k # "fin" THEN MulSpecial(x, y)
  ELSE IF x.m = 0 \/ y.m = 0 THEN Zero
  ELSE Round(x.m * y.m, x.e + y.e)

\* sgn * (n / dd) * 2^e for Prec-bit n and dd
DivFull(sgn, n, dd, e) ==
  Round(sgn * Sticky(n * 2^(Prec + 2), dd), e - (Prec + 2) - 1)

\* x / y when x or y is NaN or an infinity
DivSpecial(x, y) ==
  IF IsNaN(x) \/ IsNaN(y) THEN NaN
  ELSE IF x.k = "inf"
       THEN (IF y.k = "inf" THEN NaN
             ELSE Infinity(x.m * (IF y.m < 0 THEN 0 - 1 ELSE 1)))
  ELSE Zero

\* x / y
Div(x, y) ==
  IF x.k # "fin" THEN DivSpecial(x, y)
  ELSE IF y.k # "fin" THEN DivSpecial(x, y)
  ELSE IF y.m = 0 THEN (IF x.m = 0 THEN NaN ELSE Infinity(Sign(x.m)))
  ELSE IF x.m = 0 THEN Zero
  ELSE DivFull(Sign(x.m) * Sign(y.m), Abs(FullM(x)), Abs(FullM(y)),
               FullE(x) - FullE(y))

\* x < y, x <= y, x >= y, x > y: false when an operand is NaN.
Lt(x, y) ==
  IF x.k = "nan" THEN FALSE
  ELSE IF y.k = "nan" THEN FALSE
  ELSE IF x = y THEN FALSE
  ELSE Sub(x, y).m < 0
Le(x, y) ==
  IF x.k = "nan" THEN FALSE
  ELSE IF y.k = "nan" THEN FALSE
  ELSE IF x = y THEN TRUE
  ELSE Sub(x, y).m < 0
Ge(x, y) ==
  IF x.k = "nan" THEN FALSE
  ELSE IF y.k = "nan" THEN FALSE
  ELSE IF x = y THEN TRUE
  ELSE Sub(y, x).m < 0
Gt(x, y) ==
  IF x.k = "nan" THEN FALSE
  ELSE IF y.k = "nan" THEN FALSE
  ELSE IF x = y THEN FALSE
  ELSE Sub(y, x).m < 0

\* The square root of n * 4^e, n > 0, from r = floor(sqrt(n)): a remainder
\* is a sticky bit.
SqrtRound(n, r, e) == Round(2 * r + (IF r * r = n THEN 0 ELSE 1), e - 1)
\* The square root of m * 2^e; k makes e - k even and leaves Prec + 1 bits.
SqrtScaled(m, e, k) ==
  SqrtRound(m * 2^k, ISqrtFrom(m * 2^k, 2^(Prec + 1)), (e - k) \div 2)

\* Math.sqrt
MathSqrt(x) ==
  IF x.k = "nan" THEN NaN
  ELSE IF x.m < 0 THEN NaN
  ELSE IF x.k = "inf" THEN x
  ELSE IF x.m = 0 THEN Zero
  ELSE SqrtScaled(FullM(x), FullE(x),
                  IF (FullE(x) - (Prec + 1)) % 2 = 0 THEN Prec + 1
                  ELSE Prec + 2)

\* Math.abs
MathAbs(x) == [x EXCEPT !.m = Abs(x.m)]

\* Math.pow(x, 7) as x^4 * x^2 * x
Pow7(x, x2) == Mul(Mul(Mul(x2, x2), x2), x)
MathPow7(x) == Pow7(x, Mul(x, x))

\* Math.PI
MathPI == Lit(355, 113)
HalfPI == Div(MathPI, Num(2))

\* The integer floor of a finite number.
Floor(x) ==
  IF x.e >= 0 THEN x.m * 2^(x.e)
  ELSE IF 0 - x.e > Prec THEN (IF x.m < 0 THEN 0 - 1 ELSE 0)
  ELSE IF x.m >= 0 THEN x.m \div 2^(0 - x.e)
  ELSE 0 - ((Abs(x.m) + 2^(0 - x.e) - 1) \div 2^(0 - x.e))

\* arctan on [0, 1/8): t - t^3/3 + t^5/5 - t^7/7, with t2 = t * t
AtanPoly(t, t2) ==
  Mul(t, Add(Sub(Num(1), Div(t2, Num(3))),
             Mul(Mul(t2, t2), Sub(Lit(1, 5), Div(t2, Num(7))))))
AtanSeries(t) == AtanPoly(t, Mul(t, t))

\* arctan(k/4) for k in 1..4
AtanQuarter(k) ==
  CASE k = 1 -> Lit(2354, 9609)
    [] k = 2 -> Lit(6747, 14552)
    [] k = 3 -> Lit(12491, 19411)
    [] OTHER -> Lit(15437, 19655)
\* arctan on [1/8, 1] around the c = k/4 nearest to t:
\* arctan(t) = arctan(c) + arctan((t - c) / (1 + t * c))
AtanNear(t, k) ==
  Add(AtanQuarter(k),
      AtanSeries(Div(Sub(t, Lit(k, 4)), Add(Num(1), Mul(t, Lit(k, 4))))))

\* arctan on [0, 1]
Atan01(t) ==
  IF Lt(t, Lit(1, 8)) THEN AtanSeries(t)
  ELSE AtanNear(t, Floor(Add(Mul(t, Num(4)), Lit(1, 2))))

\* The angle of the point (ax, ay) of the first quadrant, in [0, pi/2].
AtanAbs(ay, ax) ==
  IF Le(ay, ax) THEN Atan01(Div(ay, ax))
  ELSE Sub(HalfPI, Atan01(Div(ax, ay)))
\* The angle a0 of (|xx|, |yy|) mirrored into the half plane of xx.
AtanHalfPlane(xx, a0) == IF xx.m < 0 THEN Sub(MathPI, a0) ELSE a0
\* The angle of (xx, yy) from the angle a0 of (|xx|, |yy|).
AtanSigned(yy, xx, a0) ==
  Const(a0, IF yy.m > 0 THEN AtanHalfPlane(xx, a0)
            ELSE Neg(AtanHalfPlane(xx, a0)))

\* Math.atan2(y, x) for finite arguments: the angle of the point (x, y) in
\* radians, in [-pi, pi]; atan2(0, 0) = 0.
MathAtan2(yy, xx) ==
  IF ~IsFinite(yy) \/ ~IsFinite(xx) THEN NaN
  ELSE IF yy.m = 0 THEN (IF xx.m >= 0 THEN Zero ELSE MathPI)
  ELSE IF xx.m = 0 THEN (IF yy.m > 0 THEN HalfPI ELSE Neg(HalfPI))
  ELSE AtanSigned(yy, xx, AtanAbs(MathAbs(yy), MathAbs(xx)))

\* Argument reduction: the quadrant q of v radians.
Quadrant(v) == Floor(Add(Div(v, HalfPI), Lit(1, 2)))

\* sin and cos on [-pi/4, pi/4], with r2 = r * r
SinPoly(r, r2) ==
  Const(r2, Mul(r, Add(Sub(Num(1), Div(r2, Num(6))),
                       Mul(Mul(r2, r2),
                           Sub(Lit(1, 120), Div(r2, Num(5040)))))))
CosPoly(r2) ==
  Const(r2, Add(Sub(Num(1), Div(r2, Num(2))),
                Mul(Mul(r2, r2), Sub(Lit(1, 24), Div(r2, Num(720))))))

\* sin of r + k * pi/2 for k in 0..3
SinQuadrant(k, r) ==
  Const(r, CASE k = 0 -> SinPoly(r, Mul(r, r))
             [] k = 1 -> CosPoly(Mul(r, r))
             [] k = 2 -> Neg(SinPoly(r, Mul(r, r)))
             [] OTHER -> Neg(CosPoly(Mul(r, r))))
\* sin of v + k * pi/2 for k in 0..1, v in quadrant q: v - q * pi/2 is in
\* [-pi/4, pi/4]
SinTurn(v, q, k) ==
  Const(q, SinQuadrant((q + k) % 4, Sub(v, Mul(Num(q), HalfPI))))

\* Math.sin, Math.cos (radians)
MathSin(v) == IF ~IsFinite(v) THEN NaN ELSE SinTurn(v, Quadrant(v), 0)
MathCos(v) == IF ~IsFinite(v) THEN NaN ELSE SinTurn(v, Quadrant(v), 1)

\* 1 + r/1 (1 + r/2 (1 + ... (1 + r/n))): the exponential series by Horner.
RECURSIVE ExpSeries(_, _, _)
ExpSeries(r, n, acc) ==
  IF n = 0 THEN acc
  ELSE Const(<<r, acc>>,
             ExpSeries(r, n - 1, Add(Num(1), Div(Mul(r, acc), Num(n)))))

\* Math.exp: e^v = 2^k * e^r with r = v - k ln 2 in [0, ln 2)
Ln2 == Lit(2731, 3940)
ExpScale(p, k) ==
  IF p.e + k < 0 - MinExp - Prec - 2 THEN Zero ELSE Round(p.m, p.e + k)
ExpReduced(v, k) ==
  Const(k, ExpScale(ExpSeries(Sub(v, Mul(Num(k), Ln2)), 6, Num(1)), k))
MathExp(v) ==
  IF IsNaN(v) THEN NaN
  ELSE IF v.k = "inf" THEN (IF v.m > 0 THEN v ELSE Zero)
  ELSE ExpReduced(v, Floor(Div(v, Ln2)))

\* a % b for finite a, b with |a| >= |b| > 0, on the common grid 2^e
RemAligned(a, b, e) ==
  Round(Sign(a.m) * ((Abs(a.m) * 2^(a.e - e)) % (Abs(b.m) * 2^(b.e - e))), e)

\* x % y of the source: the remainder has the sign of the dividend.
Rem(a, b) ==
  IF ~IsFinite(a) \/ IsNaN(b) THEN NaN
  ELSE IF b.k = "inf" THEN a
  ELSE IF b.m = 0 THEN NaN
  ELSE IF Lt(MathAbs(a), MathAbs(b)) THEN a
  ELSE RemAligned(a, b, IF a.e <= b.e THEN a.e ELSE b.e)

(***************************************************************************)
(* trigDegreeLib.js                                                        *)
(***************************************************************************)
_radToDeg(v) == Const(v, Div(Mul(v, Num(180)), MathPI))
_degToRad(v) == Const(v, Div(Mul(v, MathPI), Num(180)))

cosd(v) == MathCos(_degToRad(v))
sind(v) == MathSin(_degToRad(v))
atan2d(v, w) == _radToDeg(MathAtan2(v, w))

(***************************************************************************)
(* Outcomes: a call returns a value or throws an error that carries the    *)
(* constructor's arguments.                                                *)
(***************************************************************************)
Return(v) == [kind |-> "ok", val |-> v]
ChannelCountError(c, expectedNumChannels) ==
  [kind |-> "ChannelCountError",
   val |-> [x |-> c, expectedNumChannels |-> expectedNumChannels]]

\* Text: a sequence of parts, each a piece of literal text or the decimal
\* text of a number (a substitution ${v} of a template literal).
Str(s) == [txt |-> s, num |-> Zero]
ToString(v) == [txt |-> "${}", num |-> v]

\* err.join('\n')
RECURSIVE Join(_)
Join(err) ==
  IF Len(err) = 0 THEN <<>>
  ELSE IF Len(err) = 1 THEN Head(err)
  ELSE Head(err) \o <<Str("\n")>> \o Join(Tail(err))

\* if (!check) err.push(line)
PushUnless(check, err, line) == IF ~check THEN Append(err, line) ELSE err

\* Variant of ErrLines: "else if" before the tests of aCheck and bCheck.
ErrLines_ElseIf(l, a, b, lCheck, aCheck, bCheck) ==
  IF ~lCheck
  THEN <<<<Str("Expected l* = "), ToString(l),
           Str(" to be within the range [0, 100].")>>>>
  ELSE IF ~aCheck
  THEN <<<<Str("Expected a* = "), ToString(a),
           Str(" to be within the range [-128, 127].")>>>>
  ELSE PushUnless(bCheck, <<>>,
                  <<Str("Expected b* = "), ToString(b),
                    Str(" to be within the range [-128, 127].")>>)

\* err of the constructor of CoordinateRangeError after its three tests.
ErrLines(l, a, b, lCheck, aCheck, bCheck) ==
  PushUnless(bCheck,
    PushUnless(aCheck,
      PushUnless(lCheck, <<>>,
                 <<Str("Expected l* = "), ToString(l),
                   Str(" to be within the range [0, 100].")>>),
      <<Str("Expected a* = "), ToString(a),
        Str(" to be within the range [-128, 127].")>>),
    <<Str("Expected b* = "), ToString(b),
      Str(" to be within the range [-128, 127].")>>)

\* The message that the constructor of CoordinateRangeError passes to super.
RangeMessage(err) ==
  Join(err) \o <<Str("\n")>>
  \o <<Str("Check if the input has been correctly converted to L*a*b* space?")>>

CoordinateRangeError(c, checks) ==
  [kind |-> "CoordinateRangeError",
   val |-> [color |-> c, checks |-> checks,
            message |-> RangeMessage(ErrLines(c[1], c[2], c[3], checks[1],
                                              checks[2], checks[3]))]]

(***************************************************************************)
(* colorUtils.js                                                           *)
(***************************************************************************)
NUM_CHANNELS == 3

\* Variant of lWithinRange: l < 100 in place of l <= 100.
lWithinRange_Strict(l) == Ge(l, Num(0)) /\ Lt(l, Num(100))

\* The three flags of _isValidLabColor.
lWithinRange(l) == Ge(l, Num(0)) /\ Le(l, Num(100))
aWithinRange(a) == Ge(a, Num(0 - 128)) /\ Le(a, Num(127))
bWithinRange(b) == Ge(b, Num(0 - 128)) /\ Le(b, Num(127))

_isValidLabColor(c) ==
  <<lWithinRange(c[1]), aWithinRange(c[2]), bWithinRange(c[3])>>

\* Variant of VerifyRange: some() in place of every().
VerifyRange_Some(threeChannelColor, colorCoordTest) ==
  IF ~(\E i \in 1..Len(colorCoordTest) : colorCoordTest[i])
  THEN CoordinateRangeError(threeChannelColor, colorCoordTest)
  ELSE Return(threeChannelColor)

\* _checkColor from "Verify that every color channel is within L*a*b* bounds",
\* on the color of three channels and its flags colorCoordTest.
VerifyRange(threeChannelColor, colorCoordTest) ==
  IF ~(\A i \in 1..Len(colorCoordTest) : colorCoordTest[i])
  THEN CoordinateRangeError(threeChannelColor, colorCoordTest)
  ELSE Return(threeChannelColor)
CheckRange(threeChannelColor) ==
  VerifyRange(threeChannelColor, _isValidLabColor(threeChannelColor))

\* Variant of ArraySlice: the array is cut in place, as c.length = end does,
\* and returned.
ArraySlice_InPlace(c, begin, end) ==
  [returned |-> SubSeq(c, begin + 1, end), array |-> SubSeq(c, begin + 1, end)]

\* c.slice(begin, end): returns a new array of the elements begin..end-1
\* and leaves the array c as it is.
ArraySlice(c, begin, end) ==
  [returned |-> SubSeq(c, begin + 1, end), array |-> c]

\* Variant of _checkColor: the excess channels are not sliced off.
_checkColor_NoSlice(c, discardExcessChannels) ==
  IF Len(c) # NUM_CHANNELS
  THEN IF discardExcessChannels /\ Len(c) > NUM_CHANNELS
       THEN CheckRange(c)
       ELSE ChannelCountError(c, NUM_CHANNELS)
  ELSE CheckRange(c)

_checkColor(c, discardExcessChannels) ==
  IF Len(c) # NUM_CHANNELS
  THEN IF discardExcessChannels /\ Len(c) > NUM_CHANNELS
       THEN CheckRange(ArraySlice(c, 0, NUM_CHANNELS).returned)
       ELSE ChannelCountError(c, NUM_CHANNELS)
  ELSE CheckRange(c)

\* What _checkColor leaves in the caller's array c: slice is its only call
\* on c, no statement assigns to an element of c or to its length.
CheckColorLeaves(c, discardExcessChannels) ==
  IF Len(c) # NUM_CHANNELS /\ discardExcessChannels /\ Len(c) > NUM_CHANNELS
  THEN ArraySlice(c, 0, NUM_CHANNELS).array
  ELSE c

\* Math.sqrt(a * a + b * b): C of labToLch, c1 and c2 of cie1994, c1Prime
\* and c2Prime of ciede2000.
Chroma(a, b) == MathSqrt(Add(Mul(a, a), Mul(b, b)))

\* H shifted into [0, 360]: while (H >= 360) H -= 360; while (H < 0) H += 360.
RECURSIVE ShiftDown(_)
ShiftDown(H) == IF Ge(H, Num(360)) THEN ShiftDown(Sub(H, Num(360))) ELSE H
RECURSIVE ShiftUp(_)
ShiftUp(H) == IF Lt(H, Num(0)) THEN ShiftUp(Add(H, Num(360))) ELSE H

\* Variant of LchOf: without the loop "while (H < 0) H += 360".
LchOf_NoShiftUp(L, a, b, C) ==
  <<L, C, ShiftDown(IF Le(C, Num(0)) THEN Num(0) ELSE atan2d(b, a))>>

\* The two loops of labToLch on H.
Shifted(H) == Const(H, ShiftUp(ShiftDown(H)))

\* labToLch from "let H", given C.
LchOf(L, a, b, C) ==
  <<L, C, Shifted(IF Le(C, Num(0)) THEN Num(0) ELSE atan2d(b, a))>>
labToLch(c) == LchOf(c[1], c[2], c[3], Chroma(c[2], c[3]))

(***************************************************************************)
(* DeltaE.js                                                               *)
(***************************************************************************)
\* Variant of getklValueFromType: the default case returns 2.
getklValueFromType_Default2(applicationType) ==
  CASE applicationType = "textiles" -> 2
    [] applicationType = "graphicArts" -> 1
    [] OTHER -> 2

getklValueFromType(applicationType) ==
  CASE applicationType = "textiles" -> 2
    [] applicationType = "graphicArts" -> 1
    [] OTHER -> 1

\* A parameter with a default value: the default replaces an omitted argument.
Default(arg, dflt) == IF arg = "undefined" THEN dflt ELSE arg

\* Math.sqrt(firstTerm * firstTerm + secondTerm * secondTerm
\*           + thirdTerm * thirdTerm): the return expression of cie1976,
\* cie1994 and cmc1984.
Sum3(firstTerm, secondTerm, thirdTerm) ==
  Const(<<firstTerm, secondTerm, thirdTerm>>,
        MathSqrt(Add(Add(Mul(firstTerm, firstTerm),
                         Mul(secondTerm, secondTerm)),
                     Mul(thirdTerm, thirdTerm))))

\* Variant of cie1976: bDiff = a2 - b1.
cie1976_Index(c1, c2, unused) ==
  Sum3(Sub(c2[1], c1[1]), Sub(c2[2], c1[2]), Sub(c2[2], c1[3]))

cie1976(c1, c2, unused) ==
  \* lDiff, aDiff, bDiff
  Sum3(Sub(c2[1], c1[1]), Sub(c2[2], c1[2]), Sub(c2[3], c1[3]))

\* The weights k1, k2 of cie1994.
K1(applicationType) ==
  CASE applicationType = "textiles" -> Lit(48, 1000)
    [] applicationType = "graphicArts" -> Lit(45, 1000)
    [] OTHER -> Lit(45, 1000)
K2(applicationType) ==
  CASE applicationType = "textiles" -> Lit(14, 1000)
    [] applicationType = "graphicArts" -> Lit(15, 1000)
    [] OTHER -> Lit(15, 1000)

\* Variant of DeltaHOf: a negative radicand is clamped to 0.
DeltaHOf_Clamped(deltaA, deltaB, deltaC) ==
  IF Lt(Sub(Add(Mul(deltaA, deltaA), Mul(deltaB, deltaB)),
            Mul(deltaC, deltaC)), Num(0))
  THEN Num(0)
  ELSE MathSqrt(Sub(Add(Mul(deltaA, deltaA), Mul(deltaB, deltaB)),
                    Mul(deltaC, deltaC)))

\* The hue difference of cie1994 and cmc1984:
\* Math.sqrt(deltaA * deltaA + deltaB * deltaB - deltaC * deltaC)
DeltaHOf(deltaA, deltaB, deltaC) ==
  MathSqrt(Sub(Add(Mul(deltaA, deltaA), Mul(deltaB, deltaB)),
               Mul(deltaC, deltaC)))
\* Variant of DeltaH: deltaC = c1 + c2.
DeltaH_Plus(a1, b1, a2, b2, c1, c2) ==
  DeltaHOf(Sub(a1, a2), Sub(b1, b2), Add(c1, c2))

DeltaH(a1, b1, a2, b2, c1, c2) ==
  DeltaHOf(Sub(a1, a2), Sub(b1, b2), Sub(c1, c2))

\* cie1994 from "const deltaA" on; kc = kh = sl = 1.
Cie1994Terms(col1, col2, kl, k1, k2, c1, c2) ==
  Sum3(\* deltaL / (kl * sl)
       Div(Sub(col1[1], col2[1]), Mul(kl, Num(1))),
       \* deltaC / (kc * sc), sc = 1 + k1 * c1
       Div(Sub(c1, c2), Mul(Num(1), Add(Num(1), Mul(k1, c1)))),
       \* deltaH / (kh * sh), sh = 1 + k2 * c2
       Div(DeltaH(col1[2], col1[3], col2[2], col2[3], c1, c2),
           Mul(Num(1), Add(Num(1), Mul(k2, c2)))))

\* cie1994 from "const c1" on, with the weights chosen.
Cie1994Body(col1, col2, kl, k1, k2) ==
  Cie1994Terms(col1, col2, kl, k1, k2,
               Chroma(col1[2], col1[3]), Chroma(col2[2], col2[3]))

cie1994(col1, col2, type) ==
  LET applicationType == Default(type, "graphicArts")
  IN Cie1994Body(col1, col2, Num(getklValueFromType(applicationType)),
                 K1(applicationType), K2(applicationType))

\* cCoeff of ciede2000 from cBarPow7, and from c1 and c2
CCoeffOf(cBarPow7) == MathSqrt(Div(cBarPow7, Add(cBarPow7, MathPow7(Num(25)))))
CCoeff(c1, c2) ==
  Const(<<c1, c2>>, CCoeffOf(MathPow7(Div(Add(c1, c2), Num(2)))))

\* a1Prime, a2Prime of ciede2000
APrime(a, cCoeff) == Add(a, Mul(Div(a, Num(2)), Sub(Num(1), cCoeff)))

\* h1Prime, h2Prime of ciede2000
HPrime(aPrime, b) ==
  IF aPrime = Zero /\ b = Zero THEN Num(0)
  ELSE Rem(atan2d(b, aPrime), Num(360))

\* ciede2000 from "const c1Prime" to "h2Prime", without cBarPrime and
\* deltaCPrime.
PrimesOf(b1, b2, cCoeff, a1Prime, a2Prime) ==
  [cCoeff |-> cCoeff, a1Prime |-> a1Prime, a2Prime |-> a2Prime,
   c1Prime |-> Chroma(a1Prime, b1), c2Prime |-> Chroma(a2Prime, b2),
   h1Prime |-> HPrime(a1Prime, b1), h2Prime |-> HPrime(a2Prime, b2)]
Ciede2000Primes(col1, col2, cCoeff) ==
  Const(cCoeff, PrimesOf(col1[3], col2[3], cCoeff,
                         APrime(col1[2], cCoeff), APrime(col2[2], cCoeff)))

\* Variant of DeltaSmallHPrime: the two wraps by 360 are exchanged.
DeltaSmallHPrime_Swapped(h1Prime, h2Prime) ==
  IF Le(MathAbs(Sub(h1Prime, h2Prime)), Num(180))
  THEN Sub(h2Prime, h1Prime)
  ELSE IF Le(h2Prime, h1Prime)
       THEN Sub(Sub(h2Prime, h1Prime), Num(360))
       ELSE Add(Sub(h2Prime, h1Prime), Num(360))

\* deltaSmallHPrime of ciede2000 when both c1Prime and c2Prime are non-zero
DeltaSmallHPrime(h1Prime, h2Prime) ==
  IF Le(MathAbs(Sub(h1Prime, h2Prime)), Num(180))
  THEN Sub(h2Prime, h1Prime)
  ELSE IF Le(h2Prime, h1Prime)
       THEN Add(Sub(h2Prime, h1Prime), Num(360))
       ELSE Sub(Sub(h2Prime, h1Prime), Num(360))

\* deltaBigHPrime of ciede2000 when both c1Prime and c2Prime are non-zero
DeltaBigHPrime(c1Prime, c2Prime, deltaSmallHPrime) ==
  Mul(Mul(Num(2), MathSqrt(Mul(c1Prime, c2Prime))),
      sind(Div(deltaSmallHPrime, Num(2))))

\* hBarPrime of ciede2000 when both c1Prime and c2Prime are non-zero
HBarPrime(h1Prime, h2Prime) ==
  IF Le(MathAbs(Sub(h1Prime, h2Prime)), Num(180))
  THEN Div(Add(h1Prime, h2Prime), Num(2))
  ELSE IF Lt(Add(h1Prime, h2Prime), Num(360))
       THEN Div(Add(Add(h1Prime, h2Prime), Num(360)), Num(2))
       ELSE Div(Sub(Add(h1Prime, h2Prime), Num(360)), Num(2))

\* ciede2000 from "if (c1Prime === 0 || c2Prime === 0)" to the end of the
\* else branch; p holds the values computed before.
ZeroChroma(p) == p.c1Prime = Zero \/ p.c2Prime = Zero
\* Variant of HuesRec: hBarPrime is the arc-aware mean in both branches.
HuesRec_MeanOnly(p, deltaSmallHPrime) ==
  [cCoeff |-> p.cCoeff, a1Prime |-> p.a1Prime, a2Prime |-> p.a2Prime,
   c1Prime |-> p.c1Prime, c2Prime |-> p.c2Prime,
   h1Prime |-> p.h1Prime, h2Prime |-> p.h2Prime,
   deltaSmallHPrime |-> deltaSmallHPrime,
   deltaBigHPrime |->
     IF ZeroChroma(p) THEN Num(0)
     ELSE DeltaBigHPrime(p.c1Prime, p.c2Prime, deltaSmallHPrime),
   hBarPrime |-> HBarPrime(p.h1Prime, p.h2Prime)]

HuesRec(p, deltaSmallHPrime) ==
  [cCoeff |-> p.cCoeff, a1Prime |-> p.a1Prime, a2Prime |-> p.a2Prime,
   c1Prime |-> p.c1Prime, c2Prime |-> p.c2Prime,
   h1Prime |-> p.h1Prime, h2Prime |-> p.h2Prime,
   deltaSmallHPrime |-> deltaSmallHPrime,
   deltaBigHPrime |->
     IF ZeroChroma(p) THEN Num(0)
     ELSE DeltaBigHPrime(p.c1Prime, p.c2Prime, deltaSmallHPrime),
   hBarPrime |->
     IF ZeroChroma(p) THEN Add(p.h1Prime, p.h2Prime)
     ELSE HBarPrime(p.h1Prime, p.h2Prime)]
HuesOf(p, deltaSmallHPrime) ==
  Const(deltaSmallHPrime, HuesRec(p, deltaSmallHPrime))
Ciede2000Hues(p) ==
  Const(p, HuesOf(p, IF ZeroChroma(p) THEN Num(0)
                     ELSE DeltaSmallHPrime(p.h1Prime, p.h2Prime)))

\* The intermediate values of ciede2000 up to hBarPrime.
Ciede2000Hue(col1, col2) ==
  Ciede2000Hues(Ciede2000Primes(col1, col2,
                                CCoeff(labToLch(col1)[2], labToLch(col2)[2])))

\* T of ciede2000, from its four cosines and from hBarPrime
Ciede2000TOf(cos1, cos2, cos3, cos4) ==
  Const(<<cos1, cos2, cos3, cos4>>,
        Sub(Add(Add(Sub(Num(1), Mul(Lit(17, 100), cos1)),
                    Mul(Lit(24, 100), cos2)),
                Mul(Lit(32, 100), cos3)),
            Mul(Lit(2, 10), cos4)))
Ciede2000T(hBarPrime) ==
  Ciede2000TOf(cosd(Sub(hBarPrime, Num(30))),
               cosd(Mul(Num(2), hBarPrime)),
               cosd(Add(Mul(Num(3), hBarPrime), Num(6))),
               cosd(Sub(Mul(Num(4), hBarPrime), Num(63))))

\* sl, sc, sh of ciede2000
Ciede2000Sl(slCoeff) ==
  Add(Num(1), Div(Mul(Lit(15, 1000), slCoeff), MathSqrt(Add(Num(20), slCoeff))))
Ciede2000Sc(cBarPrime) == Add(Num(1), Mul(Lit(45, 1000), cBarPrime))
Ciede2000Sh(cBarPrime, T) ==
  Add(Num(1), Mul(Mul(Lit(15, 1000), cBarPrime), T))

\* RtCoeff with u = (hBarPrime - 275) / 25, and Rt of ciede2000 from
\* sind(RtCoeff) and from hBarPrime
RtCoeff(u) == Const(u, Mul(Num(60), MathExp(Mul(Neg(u), u))))
Ciede2000RtOf(cCoeff, sinRtCoeff) ==
  Const(sinRtCoeff, Mul(Mul(Num(0 - 2), cCoeff), sinRtCoeff))
Ciede2000Rt(cCoeff, hBarPrime) ==
  Ciede2000RtOf(cCoeff, sind(RtCoeff(Div(Sub(hBarPrime, Num(275)), Num(25)))))

\* The return expression of ciede2000; fourthTerm = Rt * secondTerm * thirdTerm
Ciede2000Sum(firstTerm, secondTerm, thirdTerm, Rt) ==
  Const(<<firstTerm, secondTerm, thirdTerm, Rt>>,
        MathSqrt(Add(Add(Add(Mul(firstTerm, firstTerm),
                             Mul(secondTerm, secondTerm)),
                         Mul(thirdTerm, thirdTerm)),
                     Mul(Mul(Rt, secondTerm), thirdTerm))))

\* ciede2000 from "const kl" on; kl = kc = kh = 1.
Ciede2000Weighted(l1, l2, hue, sl, sc, sh, Rt) ==
  Const(<<sl, sc, sh, Rt>>,
        Ciede2000Sum(\* deltaLPrime / (kl * sl)
                     Div(Sub(l2, l1), Mul(Num(1), sl)),
                     \* deltaCPrime / (kc * sc)
                     Div(Sub(hue.c2Prime, hue.c1Prime), Mul(Num(1), sc)),
                     \* deltaBigHPrime / (kh * sh)
                     Div(hue.deltaBigHPrime, Mul(Num(1), sh)),
                     Rt))
\* ciede2000 from "const slCoeff" on, given lBar, cBarPrime and T.
Ciede2000Scales(l1, l2, hue, lBar, cBarPrime, T) ==
  Const(<<lBar, cBarPrime, T>>,
        Ciede2000Weighted(l1, l2, hue,
                          Ciede2000Sl(Mul(Sub(lBar, Num(50)),
                                          Sub(lBar, Num(50)))),
                          Ciede2000Sc(cBarPrime),
                          Ciede2000Sh(cBarPrime, T),
                          Ciede2000Rt(hue.cCoeff, hue.hBarPrime)))
\* ciede2000 from "const T" on, given the values up to hBarPrime.
Ciede2000Terms(l1, l2, hue) ==
  Const(hue, Ciede2000Scales(l1, l2, hue, Div(Add(l1, l2), Num(2)),
                             Div(Add(hue.c1Prime, hue.c2Prime), Num(2)),
                             Ciede2000T(hue.hBarPrime)))

ciede2000(col1, col2, unused) ==
  Ciede2000Terms(col1[1], col2[1], Ciede2000Hue(col1, col2))

\* Variant of ThresholdL: the default case gives l = 2.
ThresholdL_Default2(thresholdType) ==
  CASE thresholdType = "acceptability" -> 2
    [] thresholdType = "imperceptibility" -> 1
    [] OTHER -> 2

\* The weights l, c of cmc1984.
ThresholdL(thresholdType) ==
  CASE thresholdType = "acceptability" -> 2
    [] thresholdType = "imperceptibility" -> 1
    [] OTHER -> 1
ThresholdC(thresholdType) ==
  CASE thresholdType = "acceptability" -> 1
    [] thresholdType = "imperceptibility" -> 1
    [] OTHER -> 1

\* F (from c1Pow4, and from c1), T, sl, sc and sh of cmc1984
CmcFOf(c1Pow4) == MathSqrt(Div(c1Pow4, Add(c1Pow4, Num(1900))))
CmcF(c1) == CmcFOf(Mul(Mul(Mul(c1, c1), c1), c1))
CmcT(h1) ==
  IF Ge(h1, Num(164)) /\ Le(h1, Num(345))
  THEN Add(Lit(56, 100), MathAbs(Mul(Lit(2, 10), cosd(Add(h1, Num(168))))))
  ELSE Add(Lit(36, 100), MathAbs(Mul(Lit(4, 10), cosd(Add(h1, Num(35))))))
CmcSl(l1) ==
  IF Lt(l1, Num(16)) THEN Lit(511, 1000)
  ELSE Div(Mul(Lit(1639, 40000), l1), Add(Num(1), Mul(Lit(353, 20000), l1)))
CmcSc(c1) ==
  Add(Div(Mul(Lit(319, 5000), c1), Add(Num(1), Mul(Lit(131, 10000), c1))),
      Lit(319, 500))
CmcSh(sc, F, T) == Mul(sc, Sub(Add(Mul(F, T), Num(1)), F))

\* cmc1984 from "const deltaA" on.
Cmc1984Terms(col1, col2, l, c, c1, c2, sl, sc, sh) ==
  Const(<<sl, sc, sh>>,
        Sum3(\* (l1 - l2) / (l * sl)
             Div(Sub(col1[1], col2[1]), Mul(l, sl)),
             \* (c1 - c2) / (c * sc)
             Div(Sub(c1, c2), Mul(c, sc)),
             \* deltaH / sh
             Div(DeltaH(col1[2], col1[3], col2[2], col2[3], c1, c2), sh)))

\* cmc1984 from "const sl" on, given F, T and sc.
Cmc1984Scales(col1, col2, l, c, c1, c2, F, T, sc) ==
  Const(<<F, T, sc>>,
        Cmc1984Terms(col1, col2, l, c, c1, c2,
                     CmcSl(col1[1]), sc, CmcSh(sc, F, T)))

\* cmc1984 from "const c1Pow4" on, given the two L*C*H colors.
Cmc1984Lch(col1, col2, l, c, lch1, lch2) ==
  Const(<<lch1, lch2>>,
        Cmc1984Scales(col1, col2, l, c, lch1[2], lch2[2],
                      CmcF(lch1[2]), CmcT(lch1[3]), CmcSc(lch1[2])))

\* cmc1984 from "const [_1, c1, h1]" on, with the weights chosen.
Cmc1984Body(col1, col2, l, c) ==
  Cmc1984Lch(col1, col2, l, c, labToLch(col1), labToLch(col2))

cmc1984(col1, col2, type) ==
  LET thresholdType == Default(type, "acceptability")
  IN Cmc1984Body(col1, col2, Num(ThresholdL(thresholdType)),
                 Num(ThresholdC(thresholdType)))

\* Variant of Decorated: the error of the second colour comes first.
Decorated_SecondFirst(arg0, arg1, rest) ==
  IF arg1.kind # "ok" THEN arg1
  ELSE IF arg0.kind # "ok" THEN arg0
  ELSE Return(<<arg0.val, arg1.val, rest>>)

\* The decorator's wrapper from "args[0] = ...": arg0 and arg1 are the
\* outcomes of _checkColor on args[0] and args[1]; an error of the first
\* ends the call before the second is looked at.  What it returns is the
\* argument list that originalFunc is applied to.
Decorated(arg0, arg1, rest) ==
  IF arg0.kind # "ok" THEN arg0
  ELSE IF arg1.kind # "ok" THEN arg1
  ELSE Return(<<arg0.val, arg1.val, rest>>)

\* The decorator: both colours are checked, first args[0], then args[1].
validateColorInputs(discardExcessChannels, args) ==
  Decorated(_checkColor(args[1], discardExcessChannels),
            _checkColor(args[2], discardExcessChannels), args[3])

\* originalFunc.apply(target, args) on the checked arguments, for each
\* decorated method; an error of the checks is the outcome of the call.
ApplyCie1976(checked) ==
  IF checked.kind # "ok" THEN checked
  ELSE Return(cie1976(checked.val[1], checked.val[2], checked.val[3]))
ApplyCie1994(checked) ==
  IF checked.kind # "ok" THEN checked
  ELSE Return(cie1994(checked.val[1], checked.val[2], checked.val[3]))
ApplyCiede2000(checked) ==
  IF checked.kind # "ok" THEN checked
  ELSE Return(ciede2000(checked.val[1], checked.val[2], checked.val[3]))
ApplyCmc1984(checked) ==
  IF checked.kind # "ok" THEN checked
  ELSE Return(cmc1984(checked.val[1], checked.val[2], checked.val[3]))

\* What the decorator's wrapper leaves in the caller's arrays c1 and c2:
\* it assigns to args[0] and args[1], the slots of its own argument list;
\* the second array is not looked at when the first check throws.
ValidateLeaves(discardExcessChannels, c1, c2) ==
  <<CheckColorLeaves(c1, discardExcessChannels),
    IF _checkColor(c1, discardExcessChannels).kind # "ok" THEN c2
    ELSE CheckColorLeaves(c2, discardExcessChannels)>>

\* Variant of DeltaE_cie1976: decorated with @validateColorInputs(true).
DeltaE_cie1976_Discard(c1, c2) ==
  ApplyCie1976(validateColorInputs(TRUE, <<c1, c2, "undefined">>))

\* The static methods of DeltaE as exported, each decorated with
\* @validateColorInputs(false).
DeltaE_cie1976(c1, c2) ==
  ApplyCie1976(validateColorInputs(FALSE, <<c1, c2, "undefined">>))
DeltaE_cie1994(c1, c2, applicationType) ==
  ApplyCie1994(validateColorInputs(FALSE, <<c1, c2, applicationType>>))
DeltaE_ciede2000(c1, c2) ==
  ApplyCiede2000(validateColorInputs(FALSE, <<c1, c2, "undefined">>))
DeltaE_cmc1984(c1, c2, thresholdType) ==
  ApplyCmc1984(validateColorInputs(FALSE, <<c1, c2, thresholdType>>))

(***************************************************************************)
(* The callers.  argX and argY are the two arrays a caller holds; a call   *)
(* passes them to one exported function and ret is what the call gave      *)
(* back.  The library itself keeps no state between calls.                 *)
(***************************************************************************)
VARIABLES argX, argY, ret

vars == <<argX, argY, ret>>

Color(l, a, b) == <<Num(l), Num(a), Num(b)>>

\* Valid L*a*b* colours: the colours of tests/test.js, neutral colours, the
\* corners of the range, colours with L < 16, colours of equal hue, and a
\* colour whose b is negative and small against its a, and a colour whose
\* a is negative and so small that its square underflows.
LabColors ==
  { Color(55, 60, 48), Color(55, 65, 53), Color(0, 0, 0), Color(93, 0 - 1, 25),
    Color(50, 0, 0), Color(50, 0 - 6, 0 - 3), Color(50, 0 - 4, 0 - 2),
    Color(10, 20, 0 - 30), Color(100, 127, 127), Color(0, 0 - 128, 0 - 128),
    <<Num(50), Num(100), Lit(0 - 1, 64)>>,
    <<Num(50), Mul(Lit(0 - 1, 32768), Lit(1, 32768)), Num(0)>> }

\* 3-channel inputs with a channel out of range.
OutOfRange ==
  { Color(200, 200, 200), Color(101, 0, 0), Color(0 - 1, 0, 0),
    Color(50, 128, 0), Color(50, 0 - 129, 0), Color(50, 0, 128),
    Color(50, 0, 0 - 129), Color(100, 128, 0 - 128) }


\* Inputs with fewer or more than NUM_CHANNELS channels.
WrongCount ==
  { SubSeq(Color(1, 2, 3), 1, n) : n \in 0..(NUM_CHANNELS - 1) }
  \cup { c \o [i \in 1..n |-> Num(v)] :
           c \in {Color(1, 2, 3), Color(0, 0, 0), Color(200, 200, 200)},
           n \in 1..(MaxChannels - NUM_CHANNELS),
           v \in {0, 4} }

RawColorInputs == LabColors \cup OutOfRange \cup WrongCount

ApplicationTypes == {"graphicArts", "textiles", "undefined", "foobar"}
ThresholdTypes == {"acceptability", "imperceptibility", "undefined", "foobar"}
Formulas == {"cie1976", "cie1994", "ciede2000", "cmc1984"}

Called(fn, type, discard, out) ==
  [fn |-> fn, type |-> type, discard |-> discard, out |-> out]
NoCall == Called("none", "undefined", FALSE, Return(0))

Init ==
  /\ argX \in RawColorInputs
  /\ argY \in RawColorInputs
  /\ ret = NoCall

\* _isValidLabColor(argX); the function destructures three channels.
CallIsValidLabColor ==
  /\ ret = NoCall
  /\ Len(argX) >= NUM_CHANNELS
  /\ ret' = Called("_isValidLabColor", "undefined", FALSE,
                   Return(_isValidLabColor(argX)))
  /\ UNCHANGED <<argX, argY>>

\* _checkColor(argX, discardExcessChannels)
CallCheckColor ==
  /\ ret = NoCall
  /\ \E discardExcessChannels \in BOOLEAN :
       /\ ret' = Called("_checkColor", "undefined", discardExcessChannels,
                        _checkColor(argX, discardExcessChannels))
       /\ argX' = CheckColorLeaves(argX, discardExcessChannels)
  /\ UNCHANGED argY

\* new CoordinateRangeError(argX, checks), as tests/test.js builds it: the
\* flags are the caller's.
NewCoordinateRangeError ==
  /\ ret = NoCall
  /\ Len(argX) >= NUM_CHANNELS
  /\ \E lCheck, aCheck, bCheck \in BOOLEAN :
       ret' = Called("CoordinateRangeError", "undefined", FALSE,
                     CoordinateRangeError(argX, <<lCheck, aCheck, bCheck>>))
  /\ UNCHANGED <<argX, argY>>

\* labToLch(argX)
CallLabToLch ==
  /\ ret = NoCall
  /\ Len(argX) >= NUM_CHANNELS
  /\ ret' = Called("labToLch", "undefined", FALSE, Return(labToLch(argX)))
  /\ UNCHANGED <<argX, argY>>

\* getklValueFromType(applicationType)
CallGetklValueFromType ==
  /\ ret = NoCall
  /\ \E applicationType \in ApplicationTypes :
       ret' = Called("getklValueFromType", applicationType, FALSE,
                     Return(getklValueFromType(applicationType)))
  /\ UNCHANGED <<argX, argY>>

\* DeltaE.cie1976(argX, argY)
CallCie1976 ==
  /\ ret = NoCall
  /\ ret' = Called("cie1976", "undefined", FALSE, DeltaE_cie1976(argX, argY))
  /\ argX' = ValidateLeaves(FALSE, argX, argY)[1]
  /\ argY' = ValidateLeaves(FALSE, argX, argY)[2]

\* DeltaE.cie1994(argX, argY, applicationType)
CallCie1994 ==
  /\ ret = NoCall
  /\ \E applicationType \in ApplicationTypes :
       ret' = Called("cie1994", applicationType, FALSE,
                     DeltaE_cie1994(argX, argY, applicationType))
  /\ argX' = ValidateLeaves(FALSE, argX, argY)[1]
  /\ argY' = ValidateLeaves(FALSE, argX, argY)[2]

\* DeltaE.ciede2000(argX, argY)
CallCiede2000 ==
  /\ ret = NoCall
  /\ ret' = Called("ciede2000", "undefined", FALSE,
                   DeltaE_ciede2000(argX, argY))
  /\ argX' = ValidateLeaves(FALSE, argX, argY)[1]
  /\ argY' = ValidateLeaves(FALSE, argX, argY)[2]

\* DeltaE.cmc1984(argX, argY, thresholdType)
CallCmc1984 ==
  /\ ret = NoCall
  /\ \E thresholdType \in ThresholdTypes :
       ret' = Called("cmc1984", thresholdType, FALSE,
                     DeltaE_cmc1984(argX, argY, thresholdType))
  /\ argX' = ValidateLeaves(FALSE, argX, argY)[1]
  /\ argY' = ValidateLeaves(FALSE, argX, argY)[2]

\* The caller has consumed the result and may call again on its arrays.
Done ==
  /\ ret # NoCall
  /\ ret' = NoCall
  /\ UNCHANGED <<argX, argY>>

Next ==
  \/ CallIsValidLabColor
  \/ CallCheckColor
  \/ NewCoordinateRangeError
  \/ CallLabToLch
  \/ CallGetklValueFromType
  \/ CallCie1976
  \/ CallCie1994
  \/ CallCiede2000
  \/ CallCmc1984
  \/ Done

Spec == Init /\ [][Next]_vars

(***************************************************************************)
(* Properties.  Ranges are decided on the exact value m * 2^e of a number, *)
(* independently of the comparisons of the code.                           *)
(***************************************************************************)
\* lo <= v <= hi for integers lo, hi, exactly.
Within(v, lo, hi) ==
  IsFinite(v) /\ Floor(v) >= lo /\ 0 - Floor(Neg(v)) <= hi

\* c has three channels with L in [0,100], a and b in [-128,127].
ValidLab(c) ==
  /\ Len(c) = 3
  /\ Within(c[1], 0, 100)
  /\ Within(c[2], 0 - 128, 127)
  /\ Within(c[3], 0 - 128, 127)

\* The flags of the three first channels of c.
RangeFlags(c) ==
  <<Within(c[1], 0, 100), Within(c[2], 0 - 128, 127),
    Within(c[3], 0 - 128, 127)>>

\* The error that validation owes for the colour c, "ok" when c is valid:
\* the channel count is looked at before the ranges.
OwedError(c) ==
  IF Len(c) # 3 THEN ChannelCountError(c, 3)
  ELSE IF ~ValidLab(c) THEN CoordinateRangeError(c, RangeFlags(c))
  ELSE Return(c)

FormulaCall == ret.fn \in Formulas
ValidPair == ValidLab(argX) /\ ValidLab(argY)

\* C1 as stated: in a call of cie1976, cie1994, ciede2000 or cmc1984, if the
\* first or the second colour does not have exactly 3 elements, the call
\* fails with ChannelCountError.
C1_AsStated ==
  (FormulaCall /\ (Len(argX) # 3 \/ Len(argY) # 3))
    => ret.out.kind = "ChannelCountError"

\* C1, amended: in a call of cie1976, cie1994, ciede2000 or cmc1984, a first
\* colour without exactly 3 elements fails with ChannelCountError naming it;
\* a second colour without exactly 3 elements fails with ChannelCountError
\* naming it when the first colour is a valid L*a*b* colour; and whenever
\* either colour does not have exactly 3 elements the call fails with a
\* validation error and returns no number, so that excess channels are never
\* discarded.
C1_ChannelCount ==
  FormulaCall =>
    /\ Len(argX) # 3 => ret.out = ChannelCountError(argX, 3)
    /\ (ValidLab(argX) /\ Len(argY) # 3) => ret.out = ChannelCountError(argY, 3)
    /\ (Len(argX) # 3 \/ Len(argY) # 3) =>
         ret.out.kind \in {"ChannelCountError", "CoordinateRangeError"}

\* C1, its case: a formula was called with a valid first colour and a second
\* colour of more than 3 channels whose first three are valid, and failed
\* with ChannelCountError.
C1_Witness ==
  /\ ret.fn = "ciede2000"
  /\ ValidLab(argX)
  /\ Len(argY) > 3
  /\ ValidLab(SubSeq(argY, 1, 3))
  /\ ret.out.kind = "ChannelCountError"

\* C2: _checkColor(input, discard) fails with ChannelCountError exactly when
\* the input has fewer than 3 elements, or more than 3 and discard is false;
\* with more than 3 elements and discard true, the outcome is the outcome of
\* range validation on the first 3 elements alone.
C2_CheckColorCount ==
  ret.fn = "_checkColor" =>
    /\ ret.out.kind = "ChannelCountError"
         <=> (Len(argX) < 3 \/ (Len(argX) > 3 /\ ~ret.discard))
    /\ (Len(argX) > 3 /\ ret.discard)
         => ret.out = OwedError(SubSeq(argX, 1, 3))

\* C2, its case: _checkColor was called with discard on an input of more
\* than 3 channels and returned its first three.
C2_Witness ==
  /\ ret.fn = "_checkColor"
  /\ ret.discard
  /\ Len(argX) > 3
  /\ ret.out = Return(SubSeq(argX, 1, 3))

\* C3: when _checkColor gets past the channel count, it fails with
\* CoordinateRangeError exactly when one of the three channels is out of
\* range, and otherwise returns the three channels, same values in the same
\* order; a returned colour has L in [0,100], a and b in [-128,127].
C3_CheckColorRange ==
  (ret.fn = "_checkColor" /\ ret.out.kind # "ChannelCountError") =>
    /\ ret.out.kind = "CoordinateRangeError" <=> ~ValidLab(SubSeq(argX, 1, 3))
    /\ ret.out.kind = "ok" =>
         (ret.out.val = SubSeq(argX, 1, 3) /\ ValidLab(ret.out.val))

\* C3, its case: _checkColor failed with CoordinateRangeError on a colour of
\* three channels of which one alone is out of range.
C3_Witness ==
  /\ ret.fn = "_checkColor"
  /\ Len(argX) = 3
  /\ ret.out.kind = "CoordinateRangeError"
  /\ ret.out.val.checks = <<TRUE, TRUE, FALSE>>

\* C4: _isValidLabColor([L, a, b]) returns three flags: the first is true
\* iff 0 <= L <= 100, the second iff -128 <= a <= 127, the third iff
\* -128 <= b <= 127, each whatever the other channels are.
C4_IsValidLabColor ==
  ret.fn = "_isValidLabColor" =>
    /\ Len(ret.out.val) = 3
    /\ ret.out.val[1] <=> Within(argX[1], 0, 100)
    /\ ret.out.val[2] <=> Within(argX[2], 0 - 128, 127)
    /\ ret.out.val[3] <=> Within(argX[3], 0 - 128, 127)

\* C4, its case: _isValidLabColor was called on a colour whose L and b sit
\* on the bounds 100 and -128 and whose a is out of range, and flagged a
\* alone.
C4_Witness ==
  /\ ret.fn = "_isValidLabColor"
  /\ argX[1] = Num(100)
  /\ argX[3] = Num(0 - 128)
  /\ ret.out.val = <<TRUE, FALSE, TRUE>>

\* C5: for every valid L*a*b* colour x, cie1976(x, x), cie1994(x, x, t),
\* ciede2000(x, x) and cmc1984(x, x, t) return exactly 0, for every type t.
C5_IdenticalColors ==
  (FormulaCall /\ argX = argY /\ ValidLab(argX)) => ret.out = Return(Zero)

\* C5, its case: cmc1984 was called on twice the same chromatic colour with
\* L < 16 and returned 0.
C5_Witness ==
  /\ ret.fn = "cmc1984"
  /\ argX = argY
  /\ ValidLab(argX)
  /\ Within(argX[1], 0, 15)
  /\ argX[2] # Zero
  /\ ret.out = Return(Zero)

\* sqrt(dL^2 + da^2 + db^2) for the differences p - q.
Euclid(p, q) ==
  MathSqrt(Add(Add(Mul(Sub(p[1], q[1]), Sub(p[1], q[1])),
                   Mul(Sub(p[2], q[2]), Sub(p[2], q[2]))),
               Mul(Sub(p[3], q[3]), Sub(p[3], q[3]))))

\* C6: for valid colours a and b, cie1976(a, b) is the Euclidean distance
\* sqrt(dL^2 + da^2 + db^2) of a and b, whichever way round the differences
\* are taken, and it equals cie1976(b, a).
C6_Euclidean ==
  (ret.fn = "cie1976" /\ ValidPair) =>
    /\ ret.out = Return(Euclid(argX, argY))
    /\ ret.out = Return(Euclid(argY, argX))
    /\ ret.out = DeltaE_cie1976(argY, argX)

\* C6, its case: cie1976 was called on two valid colours that differ in
\* every channel and returned a non-zero distance.
C6_Witness ==
  /\ ret.fn = "cie1976"
  /\ ValidPair
  /\ \A i \in 1..3 : argX[i] # argY[i]
  /\ ret.out.kind = "ok"
  /\ Gt(ret.out.val, Num(0))

\* C7 as stated: every call of cie1976, cie1994, ciede2000 or cmc1984 either
\* fails with a validation error or returns a finite number.
C7_AsStated ==
  FormulaCall =>
    \/ ret.out.kind \in {"ChannelCountError", "CoordinateRangeError"}
    \/ (ret.out.kind = "ok" /\ IsFinite(ret.out.val))

\* C8: getklValueFromType returns 2 for 'textiles' and 1 for anything else;
\* cie1994 computes with k1 = 0.048, k2 = 0.014, kl = 2 for 'textiles' and
\* with k1 = 0.045, k2 = 0.015, kl = 1 for 'graphicArts', an omitted
\* argument and every unrecognized value; so cie1994 with a type other than
\* 'textiles' equals cie1994 with 'graphicArts' on the same inputs.
C8_Cie1994Weights ==
  /\ ret.fn = "getklValueFromType" =>
       ret.out = Return(IF ret.type = "textiles" THEN 2 ELSE 1)
  /\ (ret.fn = "cie1994" /\ ValidPair /\ ret.type = "textiles") =>
       ret.out = Return(Cie1994Body(argX, argY, Num(2),
                                    Lit(48, 1000), Lit(14, 1000)))
  /\ (ret.fn = "cie1994" /\ ValidPair /\ ret.type # "textiles") =>
       ret.out = Return(Cie1994Body(argX, argY, Num(1),
                                    Lit(45, 1000), Lit(15, 1000)))
  /\ (ret.fn = "cie1994" /\ ret.type # "textiles") =>
       ret.out = DeltaE_cie1994(argX, argY, "graphicArts")

\* C8, its case: cie1994 was called with an unrecognized type on two valid
\* colours and returned a number that 'textiles' does not give.
C8_Witness ==
  /\ ret.fn = "cie1994"
  /\ ret.type = "foobar"
  /\ ValidPair
  /\ ret.out.kind = "ok"
  /\ IsFinite(ret.out.val)
  /\ ret.out # DeltaE_cie1994(argX, argY, "textiles")

\* C9: cmc1984 computes with l = 2, c = 1 when thresholdType is
\* 'acceptability' or omitted, and with l = 1, c = 1 when it is
\* 'imperceptibility' or unrecognized; for two colours of equal L the
\* result is the same for every thresholdType.
C9_Cmc1984Weights ==
  (ret.fn = "cmc1984" /\ ValidPair) =>
    /\ ret.out = Return(Cmc1984Body(
                          argX, argY,
                          IF ret.type \in {"acceptability", "undefined"}
                          THEN Num(2) ELSE Num(1),
                          Num(1)))
    /\ argX[1] = argY[1] =>
         \A t \in ThresholdTypes : ret.out = DeltaE_cmc1984(argX, argY, t)

\* C9, its case: cmc1984 was called with 'imperceptibility' on two
\* different valid colours of equal L and returned a non-zero number.
C9_Witness ==
  /\ ret.fn = "cmc1984"
  /\ ret.type = "imperceptibility"
  /\ ValidPair
  /\ argX[1] = argY[1]
  /\ ret.out.kind = "ok"
  /\ Gt(ret.out.val, Num(0))

\* What labToLch returned for the input c, with H below 360 (strict) or up
\* to 360: L unchanged, C = sqrt(a^2 + b^2), H = 0 when C <= 0, otherwise
\* H = atan2d(b, a), plus 360 when that angle is negative.
LchOfInput(c, lch, strict) ==
  /\ Len(lch) = 3
  /\ lch[1] = c[1]
  /\ lch[2] = MathSqrt(Add(Mul(c[2], c[2]), Mul(c[3], c[3])))
  /\ (c[2] = Zero /\ c[3] = Zero) => Le(lch[2], Num(0))
  /\ Le(lch[2], Num(0)) => lch[3] = Zero
  /\ ~Le(lch[2], Num(0)) =>
       lch[3] = IF Lt(atan2d(c[3], c[2]), Num(0))
                THEN Add(atan2d(c[3], c[2]), Num(360))
                ELSE atan2d(c[3], c[2])
  /\ Ge(lch[3], Num(0))
  /\ IF strict THEN Lt(lch[3], Num(360)) ELSE Le(lch[3], Num(360))

\* C10 as stated: a call labToLch([L, a, b]) leaves its input as it was and
\* returns [L, C, H] with L unchanged, C = sqrt(a^2 + b^2), H = 0 when
\* C <= 0, and otherwise H = atan2d(b, a) shifted by multiples of 360 so
\* that 0 <= H < 360.
C10_AsStated ==
  [][ret'.fn = "labToLch" =>
       (argX' = argX /\ LchOfInput(argX, ret'.out.val, TRUE))]_vars

\* C10, amended: a call labToLch([L, a, b]) ends, leaves its input as it
\* was and returns [L, C, H] with L unchanged, C = sqrt(a^2 + b^2), H = 0
\* when C <= 0, and otherwise H = atan2d(b, a), plus 360 when that angle is
\* negative, so that 0 <= H <= 360: the sum is exactly 360 when the angle
\* is negative and too small to show in the sum.
C10_LabToLch ==
  [][ret'.fn = "labToLch" =>
       (argX' = argX /\ LchOfInput(argX, ret'.out.val, FALSE))]_vars

\* C10, its case: labToLch was called on a colour whose angle atan2d(b, a)
\* is negative and returned that angle plus 360, below 360.
C10_Witness ==
  /\ ret.fn = "labToLch"
  /\ Lt(atan2d(argX[3], argX[2]), Num(0))
  /\ ret.out.val[3] = Add(atan2d(argX[3], argX[2]), Num(360))
  /\ Lt(ret.out.val[3], Num(360))

\* The lines of a text: its parts between line breaks.
RECURSIVE Lines(_)
Lines(text) ==
  IF \A i \in 1..Len(text) : text[i] # Str("\n") THEN <<text>>
  ELSE <<SubSeq(text, 1, (CHOOSE i \in 1..Len(text) :
                             /\ text[i] = Str("\n")
                             /\ \A j \in 1..(i - 1) : text[j] # Str("\n")) - 1)>>
       \o Lines(SubSeq(text, (CHOOSE i \in 1..Len(text) :
                                /\ text[i] = Str("\n")
                                /\ \A j \in 1..(i - 1) : text[j] # Str("\n")) + 1,
                       Len(text)))

\* The lines that report the channels i..3 of the colour c whose flag is
\* false, in order, as documented: the channel, its value and its range.
RECURSIVE ChannelLines(_, _, _)
ChannelLines(c, checks, i) ==
  IF i > 3 THEN <<>>
  ELSE (IF checks[i] THEN <<>>
        ELSE << <<Str(<<"Expected l* = ", "Expected a* = ",
                        "Expected b* = ">>[i]),
                  ToString(c[i]),
                  Str(<<" to be within the range [0, 100].",
                        " to be within the range [-128, 127].",
                        " to be within the range [-128, 127].">>[i])>> >>)
       \o ChannelLines(c, checks, i + 1)

\* C11: the message of a CoordinateRangeError built from a colour and its
\* flags has one line for exactly each channel whose flag is false, in the
\* order L, a, b, naming the channel's value and its range, and the hint as
\* last line; an in-range channel has no line, several out-of-range channels
\* are all reported.  (When no flag is false the only other line is empty.)
C11_RangeMessage ==
  ret.out.kind = "CoordinateRangeError" =>
    Lines(ret.out.val.message)
      = (IF \A i \in 1..3 : ret.out.val.checks[i] THEN << <<>> >>
         ELSE ChannelLines(ret.out.val.color, ret.out.val.checks, 1))
        \o << <<Str("Check if the input has been correctly converted to L*a*b* space?")>> >>

\* C11, its case: an error was built from a colour with L in range and a, b
\* out of range; its message has the lines of a and b and the hint.
C11_Witness ==
  /\ ret.out.kind = "CoordinateRangeError"
  /\ ret.out.val.checks = <<TRUE, FALSE, FALSE>>
  /\ Len(Lines(ret.out.val.message)) = 3
  /\ Lines(ret.out.val.message)[1]
       = <<Str("Expected a* = "), ToString(ret.out.val.color[2]),
           Str(" to be within the range [-128, 127].")>>
  /\ Lines(ret.out.val.message)[2]
       = <<Str("Expected b* = "), ToString(ret.out.val.color[3]),
           Str(" to be within the range [-128, 127].")>>

\* The outcome of the call fn on the arrays x and y with the type and the
\* flag given.
OutcomeOf(fn, type, discard, x, y) ==
  CASE fn = "_checkColor" -> _checkColor(x, discard)
    [] fn = "labToLch" -> Return(labToLch(x))
    [] fn = "cie1976" -> DeltaE_cie1976(x, y)
    [] fn = "cie1994" -> DeltaE_cie1994(x, y, type)
    [] fn = "ciede2000" -> DeltaE_ciede2000(x, y)
    [] fn = "cmc1984" -> DeltaE_cmc1984(x, y, type)

\* C12: calls are free of side effects: every step of every sequence of
\* calls of _checkColor, labToLch and the four formulas, failing or not,
\* leaves the caller's arrays as they were, and the outcome of a call is
\* the function of its own arguments, whatever was called before.
C12_NoSideEffects ==
  [][/\ argX' = argX
     /\ argY' = argY
     /\ ret'.fn \in {"_checkColor", "labToLch"} \cup Formulas =>
          ret'.out = OutcomeOf(ret'.fn, ret'.type, ret'.discard, argX, argY)]_vars

\* C12, its case: _checkColor was called to discard excess channels on an
\* array of four channels and returned three channels, and the array still
\* has four.
C12_Witness ==
  /\ ret.fn = "_checkColor"
  /\ ret.discard
  /\ Len(argX) = 4
  /\ ret.out.kind = "ok"
  /\ Len(ret.out.val) = 3

\* C13: a formula call validates in a fixed order before it computes: count
\* of the first colour, range of the first, count of the second, range of
\* the second.  So the error is the one of the first colour when both are
\* invalid, ChannelCountError when a colour has both a wrong count and
\* out-of-range values, and a number is returned only when both are valid.
C13_ValidationOrder ==
  FormulaCall =>
    /\ OwedError(argX).kind # "ok" => ret.out = OwedError(argX)
    /\ (OwedError(argX).kind = "ok" /\ OwedError(argY).kind # "ok") =>
         ret.out = OwedError(argY)
    /\ ret.out.kind = "ok" <=> ValidPair

\* C13, its case: a formula was called with a first colour out of range
\* and a second colour of four channels with values out of range, and
\* failed with the range error of the first.
C13_Witness ==
  /\ FormulaCall
  /\ Len(argX) = 3
  /\ ~ValidLab(argX)
  /\ Len(argY) = 4
  /\ ~Within(argY[1], 0, 100)
  /\ ret.out = CoordinateRangeError(argX, RangeFlags(argX))

\* The hue that ciede2000 owes for the colour of adjusted a' and of b, as
\* documented, holds in h: 0 when a' = 0 and b = 0, otherwise atan2d(b, a')
\* modulo 360, a hue angle.
OwedHue(aPrime, b, h) ==
  /\ (aPrime = Zero /\ b = Zero) => h = Zero
  /\ ~(aPrime = Zero /\ b = Zero) =>
       \E k \in {0 - 360, 0, 360} : h = Add(atan2d(b, aPrime), Num(k))
  /\ Ge(h, Num(0))
  /\ Lt(h, Num(360))

\* C14 as stated: in ciede2000 the hue h' of each colour is 0 when a' = 0
\* and b = 0, and otherwise atan2d(b, a') reduced modulo 360, a hue angle
\* with 0 <= h' < 360 for every valid colour, also when b < 0.
C14_AsStated ==
  (ret.fn = "ciede2000" /\ ValidPair) =>
    /\ OwedHue(Ciede2000Hue(argX, argY).a1Prime, argX[3],
               Ciede2000Hue(argX, argY).h1Prime)
    /\ OwedHue(Ciede2000Hue(argX, argY).a2Prime, argY[3],
               Ciede2000Hue(argX, argY).h2Prime)

\* The shortest-arc rule, as documented, gives dh for the hues h1 and h2 of
\* two chromatic colours (zeroChroma is false), and dh is at most 180 in
\* magnitude and h2 - h1 up to a turn.
ShortestArc(zeroChroma, h1, h2, dh) ==
  ~zeroChroma =>
  /\ Le(MathAbs(Sub(h1, h2)), Num(180)) => dh = Sub(h2, h1)
  /\ (~Le(MathAbs(Sub(h1, h2)), Num(180)) /\ Le(h2, h1)) =>
       dh = Add(Sub(h2, h1), Num(360))
  /\ (~Le(MathAbs(Sub(h1, h2)), Num(180)) /\ Gt(h2, h1)) =>
       dh = Sub(Sub(h2, h1), Num(360))
  /\ Le(MathAbs(dh), Num(180))
  /\ \E k \in {0 - 360, 0, 360} : dh = Add(Sub(h2, h1), Num(k))

\* C15: in ciede2000, when both adjusted chromas are non-zero, dh' is
\* h2' - h1' if |h1' - h2'| <= 180, otherwise h2' - h1' + 360 when
\* h2' <= h1' and h2' - h1' - 360 when h2' > h1'; for the hues the code
\* produces, |dh'| <= 180 and dh' is h2' - h1' modulo 360.
C15_ShortestArc ==
  (ret.fn = "ciede2000" /\ ValidPair) =>
    ShortestArc(ZeroChroma(Ciede2000Hue(argX, argY)),
                Ciede2000Hue(argX, argY).h1Prime,
                Ciede2000Hue(argX, argY).h2Prime,
                Ciede2000Hue(argX, argY).deltaSmallHPrime)

\* C15, its case: ciede2000 was called on two chromatic colours whose hues
\* are more than 180 apart, h2' > h1', and returned a number; dh' is
\* h2' - h1' - 360.
C15_Witness ==
  /\ ret.fn = "ciede2000"
  /\ ValidPair
  /\ ret.out.kind = "ok"
  /\ IsFinite(ret.out.val)
  /\ ~ZeroChroma(Ciede2000Hue(argX, argY))
  /\ Gt(MathAbs(Sub(Ciede2000Hue(argX, argY).h1Prime,
                    Ciede2000Hue(argX, argY).h2Prime)), Num(180))
  /\ Gt(Ciede2000Hue(argX, argY).h2Prime, Ciede2000Hue(argX, argY).h1Prime)
  /\ Ciede2000Hue(argX, argY).deltaSmallHPrime
       = Sub(Sub(Ciede2000Hue(argX, argY).h2Prime,
                 Ciede2000Hue(argX, argY).h1Prime), Num(360))

\* The arc-aware mean, as documented, gives hBar for the hues h1 and h2 of
\* two chromatic colours (zeroChroma is false); hBar is a hue angle on the
\* shorter arc between h1 and h2: at most 90 away from each on the circle.
ArcMean(zeroChroma, h1, h2, hBar) ==
  ~zeroChroma =>
  /\ Le(MathAbs(Sub(h1, h2)), Num(180)) => hBar = Div(Add(h1, h2), Num(2))
  /\ (~Le(MathAbs(Sub(h1, h2)), Num(180)) /\ Lt(Add(h1, h2), Num(360))) =>
       hBar = Div(Add(Add(h1, h2), Num(360)), Num(2))
  /\ (~Le(MathAbs(Sub(h1, h2)), Num(180)) /\ Ge(Add(h1, h2), Num(360))) =>
       hBar = Div(Sub(Add(h1, h2), Num(360)), Num(2))
  /\ Ge(hBar, Num(0))
  /\ Lt(hBar, Num(360))
  /\ \/ Le(MathAbs(Sub(hBar, h1)), Num(90))
     \/ Ge(MathAbs(Sub(hBar, h1)), Num(270))
  /\ \/ Le(MathAbs(Sub(hBar, h2)), Num(90))
     \/ Ge(MathAbs(Sub(hBar, h2)), Num(270))

\* C16 as stated: in ciede2000, when both adjusted chromas are non-zero,
\* the mean hue is (h1' + h2') / 2 if |h1' - h2'| <= 180, otherwise
\* (h1' + h2' + 360) / 2 when h1' + h2' < 360 and (h1' + h2' - 360) / 2
\* when h1' + h2' >= 360; for the hues the code produces the mean is in
\* [0, 360) and on the shorter arc between h1' and h2'.
C16_AsStated ==
  (ret.fn = "ciede2000" /\ ValidPair) =>
    ArcMean(ZeroChroma(Ciede2000Hue(argX, argY)),
            Ciede2000Hue(argX, argY).h1Prime,
            Ciede2000Hue(argX, argY).h2Prime,
            Ciede2000Hue(argX, argY).hBarPrime)

\* dA^2 + dB^2 - dC^2 for the colours p and q, with dA = a1 - a2,
\* dB = b1 - b2, dC = c1 - c2 and c = sqrt(a^2 + b^2).
Radicand(p, q) ==
  Sub(Add(Mul(Sub(p[2], q[2]), Sub(p[2], q[2])),
          Mul(Sub(p[3], q[3]), Sub(p[3], q[3]))),
      Mul(Sub(Chroma(p[2], p[3]), Chroma(q[2], q[3])),
          Sub(Chroma(p[2], p[3]), Chroma(q[2], q[3]))))

\* C17: in cie1994 and cmc1984 the hue difference is the square root of
\* dA^2 + dB^2 - dC^2, not clamped, and for the valid pairs that make this
\* radicand negative both formulas return NaN.
C17_NegativeRadicand ==
  (ret.fn \in {"cie1994", "cmc1984"} /\ ValidPair) =>
    /\ DeltaH(argX[2], argX[3], argY[2], argY[3],
              Chroma(argX[2], argX[3]), Chroma(argY[2], argY[3]))
         = MathSqrt(Radicand(argX, argY))
    /\ Lt(Radicand(argX, argY), Num(0)) =>
         /\ ret.out = Return(NaN)
         /\ DeltaE_cie1994(argX, argY, "undefined") = Return(NaN)
         /\ DeltaE_cmc1984(argX, argY, "undefined") = Return(NaN)

\* C17, its case: cmc1984 was called on a valid pair whose radicand is
\* negative and returned NaN.
C17_Witness ==
  /\ ret.fn = "cmc1984"
  /\ ValidPair
  /\ Lt(Radicand(argX, argY), Num(0))
  /\ ret.out = Return(NaN)

\* The zero-chroma branch of ciede2000 on the values p of the colours col1
\* and col2, and the zero tests of each colour: a' and b are 0 exactly when
\* a and b are, and then c' and h' are 0 and the mean hue is the hue of the
\* other colour.
ZeroChromaBranch(col1, col2, p) ==
  /\ ZeroChroma(p) =>
       /\ p.deltaSmallHPrime = Zero
       /\ p.deltaBigHPrime = Zero
       /\ p.hBarPrime = Add(p.h1Prime, p.h2Prime)
  /\ (p.a1Prime = Zero /\ col1[3] = Zero)
       <=> (col1[2] = Zero /\ col1[3] = Zero)
  /\ (p.a2Prime = Zero /\ col2[3] = Zero)
       <=> (col2[2] = Zero /\ col2[3] = Zero)
  /\ (col1[2] = Zero /\ col1[3] = Zero) =>
       (p.c1Prime = Zero /\ p.h1Prime = Zero /\ p.hBarPrime = p.h2Prime)
  /\ (col2[2] = Zero /\ col2[3] = Zero) =>
       (p.c2Prime = Zero /\ p.h2Prime = Zero /\ p.hBarPrime = p.h1Prime)

\* C18 as stated: in ciede2000, if c' of either colour is 0 then dh' = 0,
\* dH' = 0 and the mean hue is h1' + h2'; the two zero tests agree: c' = 0
\* for a colour exactly when its a' = 0 and b = 0 (exactly when a = 0 and
\* b = 0), so that colour's h' is 0 and the mean hue is the hue of the
\* other colour.
C18_AsStated ==
  (ret.fn = "ciede2000" /\ ValidPair) =>
    /\ ZeroChromaBranch(argX, argY, Ciede2000Hue(argX, argY))
    /\ Ciede2000Hue(argX, argY).c1Prime = Zero =>
         (Ciede2000Hue(argX, argY).a1Prime = Zero /\ argX[3] = Zero)
    /\ Ciede2000Hue(argX, argY).c2Prime = Zero =>
         (Ciede2000Hue(argX, argY).a2Prime = Zero /\ argY[3] = Zero)

\* C18, amended: in ciede2000, if c' of either colour is 0 then dh' = 0,
\* dH' = 0 and the mean hue is h1' + h2'; a' = 0 and b = 0 for a colour
\* exactly when a = 0 and b = 0, and then its c' and h' are 0 and the mean
\* hue is the hue of the other colour.  (c' is also 0 when a' and b are not
\* 0 but their squares underflow to 0; h' is then atan2d(b, a').)
C18_ZeroChroma ==
  (ret.fn = "ciede2000" /\ ValidPair) =>
    ZeroChromaBranch(argX, argY, Ciede2000Hue(argX, argY))

\* C18, its case: ciede2000 was called on a neutral first colour and a
\* chromatic second colour of another hue than 0, which is the mean hue, and
\* returned a number.
C18_Witness ==
  /\ ret.fn = "ciede2000"
  /\ ValidPair
  /\ argX[2] = Zero
  /\ argX[3] = Zero
  /\ ret.out.kind = "ok"
  /\ Ciede2000Hue(argX, argY).c1Prime = Zero
  /\ Ciede2000Hue(argX, argY).c2Prime # Zero
  /\ Ciede2000Hue(argX, argY).h2Prime # Zero
  /\ Ciede2000Hue(argX, argY).hBarPrime = Ciede2000Hue(argX, argY).h2Prime

=============================================================================
